---- MODULE Spec2Model ----
(***************************************************************************)
(* HTTPedia (src/httpedia.py): the image proxy with its on-disk GIF cache, *)
(* the image extractor, and the article renderer.                          *)
(*                                                                         *)
(* Text is modelled as a sequence of atoms.  An atom is a literal piece of *)
(* text ("/", ".", "en", "[", ...); a string is the concatenation of its   *)
(* atoms.  The atoms of each alphabet are chosen so that the patterns the  *)
(* code searches for match in the concatenated text exactly where they     *)
(* match atom-wise.                                                        *)
(***************************************************************************)
EXTENDS Integers, Sequences, FiniteSets, TLC

VARIABLES debug, serial, pool, budget, cache, firstGif, stored, ioFault, req

cacheVars == <<debug, serial, pool, budget, cache, firstGif, stored, ioFault, req>>

VARIABLES family, wpc, img_mode, prefs_string, doc, orig, infobox_html, hero_image,
          gallery_html, lines

wikiVars == <<family, wpc, img_mode, prefs_string, doc, orig, infobox_html, hero_image,
              gallery_html, lines>>

vars == <<cacheVars, wikiVars>>

(***************************************************************************)
(* Bounds of the model.                                                    *)
(***************************************************************************)
NumWorkers == 2
MaxCalls == 2
MaxPathLen == 3
MaxNodes == 3
MaxImgNodes == 3
MaxImgs == 11
MaxHrefLen == 2
MaxTextLen == 5
MaxSegs == 3
MaxFilterNodes == 3

Workers == 1..NumWorkers

(***************************************************************************)
(* Strings.                                                                *)
(***************************************************************************)
LF == "\n"

SeqsUpTo(S, n) == UNION {[1..k -> S] : k \in 0..n}

StartsWith(s, p) == Len(s) >= Len(p) /\ SubSeq(s, 1, Len(p)) = p

\* Python's  p in s  for a non-empty p.
Contains(s, p) == \E i \in 1..(Len(s) - Len(p) + 1) : SubSeq(s, i, i + Len(p) - 1) = p

\* The number of characters of an atom of a path or of an image source.
AtomLen(a) ==
    CASE a = "en" -> 2
      [] a = "commons" -> 7
      [] a = "wikipedia" -> 9
      [] a = "https:" -> 6
      [] a = "evil.example" -> 12
      [] a = "upload.wikimedia.org" -> 20
      [] OTHER -> 1

\* len(): the number of characters of a string.
CharLen(s) ==
    LET n[i \in 0..Len(s)] == IF i = 0 THEN 0 ELSE n[i - 1] + AtomLen(s[i])
    IN n[Len(s)]

\* The atoms a requested image path is made of: "%" stands for any character
\* outside [a-zA-Z0-9/_.-] other than the line feed.
PathAtoms == {"a", ".", "/", "en", LF, "%"}

\* The atoms all of whose characters are of the class [a-zA-Z0-9/_.-].
SafeAtoms == {"a", ".", "/", "en", "commons", "wikipedia", "evil.example",
              "upload.wikimedia.org"}

AllSafe(s) == \A i \in 1..Len(s) : s[i] \in SafeAtoms

\* re.match(r'^[a-zA-Z0-9/_.-]+$', s): one or more characters of the class from
\* the start, then '$', which Python matches at the end of the string and also
\* just before a line feed that ends the string.
SafeRe(s) ==
    \/ Len(s) >= 1 /\ AllSafe(s)
    \/ Len(s) >= 2 /\ s[Len(s)] = LF /\ AllSafe(SubSeq(s, 1, Len(s) - 1))

\* '..' in s
HasDotDot(s) == Contains(s, <<".", ".">>)

(***************************************************************************)
(* proxy_image: the answers given before any fetch, and the upstream URL.  *)
(***************************************************************************)
ImgPrefs == {"0", "1", "a"}

\* 0: no early answer, the image is fetched.
ProxyImageEarly(img, image_path) ==
    IF img = "0" THEN 200
    ELSE IF ~SafeRe(image_path) THEN 400
    ELSE IF HasDotDot(image_path) THEN 400
    ELSE IF CharLen(image_path) > 500 THEN 400
    ELSE 0

ImageUrl(image_path) ==
    IF StartsWith(image_path, <<"en", "/">>)
    THEN <<"https://upload.wikimedia.org/wikipedia/">> \o image_path
    ELSE <<"https://upload.wikimedia.org/wikipedia/", "commons", "/">> \o image_path

(***************************************************************************)
(* fetch_and_convert_image.                                                *)
(***************************************************************************)
\* hashlib.md5(image_url.encode()).hexdigest() + '.gif': the digest is taken
\* to be collision-free, so the key determines the URL.
CacheKey(image_url) == <<"md5">> \o image_url \o <<".gif">>

UseCache == ~debug

\* None, the 'not available' value; b'' is the empty sequence.
None == <<"None">>

MaxBytes == 5 * 1024 * 1024

\* The size of a body well below the maximum.
SmallLen == 1000

\* What requests.get may answer: raise_for_status() passes or raises, the
\* Content-Length header is absent, empty, an integer or not a number, the
\* body has len bytes, Image.open accepts it or raises, img.save works or raises.
ContentLengths ==
    {[kind |-> k, val |-> 0] : k \in {"absent", "empty", "bad"}}
        \cup {[kind |-> "int", val |-> v] : v \in {SmallLen, MaxBytes, MaxBytes + 1}}

\* A request that fails brings no header and no body, and an image the decoder
\* rejects never comes to the encoder.
Responses ==
    {r \in [ok : BOOLEAN, cl : ContentLengths, len : {SmallLen, MaxBytes, MaxBytes + 1},
            decodable : BOOLEAN, encodable : BOOLEAN] :
        /\ ~r.ok => r.cl.kind = "absent" /\ r.len = SmallLen /\ r.decodable
        /\ ~r.decodable => r.encodable}

\* The GIF the transcoder makes of the image at a URL: the upstream image of a
\* URL does not change, and the encoder is deterministic.
Gif(image_url) == <<"GIF89a">> \o image_url \o <<";">>

DeclaredTooBig(resp) == resp.cl.kind = "int" /\ resp.cl.val > MaxBytes

ReceivedTooBigOff(resp) == FALSE

ReceivedTooBig(resp) == resp.len > MaxBytes

\* Lines 747-771: the site at which the download ends, or "ok".
DownloadEnd(resp) ==
    IF ~resp.ok THEN "get"
    ELSE IF resp.cl.kind = "bad" THEN "content_length"
    ELSE IF DeclaredTooBig(resp) THEN "declared"
    ELSE IF ReceivedTooBig(resp) THEN "received"
    ELSE IF ~resp.decodable THEN "decode"
    ELSE IF ~resp.encodable THEN "save"
    ELSE "ok"

ReachesDecoder(resp) == DownloadEnd(resp) \in {"decode", "save", "ok"}

\* What becomes of an exception raised at a site: the try at 739-744 passes on
\* to the download, the try at 774-778 logs and goes on to return gif_data, the
\* try at 746-784 returns None; anything else would leave the function.
HandlerDecodeOutside(site) ==
    CASE site = "read" -> "pass"
      [] site \in {"open", "write"} -> "log"
      [] site \in {"get", "content_length", "save"} -> "none"
      [] OTHER -> "propagate"

Handler(site) ==
    CASE site = "read" -> "pass"
      [] site \in {"open", "write"} -> "log"
      [] site \in {"get", "content_length", "decode", "save"} -> "none"
      [] OTHER -> "propagate"

\* A write of data at offset off: bytes past the end of the file leave a hole.
PutAt(file, off, data) ==
    [i \in 1..(IF Len(file) > off + Len(data) THEN Len(file) ELSE off + Len(data)) |->
        IF i > off /\ i <= off + Len(data) THEN data[i - off]
        ELSE IF i <= Len(file) THEN file[i]
        ELSE "\\0"]

Exists(key) == key \in DOMAIN cache

SetFile(f, key, bytes) == [k \in DOMAIN f \cup {key} |-> IF k = key THEN bytes ELSE f[k]]

DelFile(f, key) == [k \in DOMAIN f \ {key} |-> f[k]]

NoFiles == [k \in {} |-> <<>>]

\* The body of the answer given when images are switched off (line 649).
Placeholder == <<"GIF89a", "1x1">>

\* A worker between requests.  Of the current call, called, fetched and decoded
\* record that fetch_and_convert_image was called, that it issued an upstream
\* fetch and that it reached Image.open; oversize, that the response was
\* oversize; failed, the sites that raised; prior, the bytes first returned for
\* the URL by an earlier call; storedPrior, the bytes an earlier call has written
\* completely into the entry, not reopened for writing since.  ioFault records
\* that some write to the cache has failed.
Idle ==
    [pc |-> "idle", image_path |-> <<>>, gif_data |-> None, off |-> 0,
     result |-> None, status |-> 0, called |-> FALSE, fetched |-> FALSE,
     decoded |-> FALSE, oversize |-> FALSE, failed |-> {}, prior |-> None,
     storedPrior |-> None]

UrlOf(w) == ImageUrl(req[w].image_path)

KeyOf(w) == CacheKey(UrlOf(w))

\* proxy_image, lines 665-669:  if gif_data: 200  else: 404.
StatusOf(gif_data) == IF gif_data # None /\ gif_data # <<>> THEN 200 ELSE 404

\* fetch_and_convert_image returns data to proxy_image, which answers.
Return(w, data, rec) ==
    /\ req' = [req EXCEPT ![w] = [rec EXCEPT !.pc = "done", !.result = data,
                                             !.status = StatusOf(data)]]
    /\ firstGif' = IF data # None /\ data # <<>> /\ KeyOf(w) \notin DOMAIN firstGif
                   THEN SetFile(firstGif, KeyOf(w), data)
                   ELSE firstGif

\* An exception raised at a site of fetch_and_convert_image.
Raise(w, site, rec) ==
    LET h == Handler(site)
        r == [rec EXCEPT !.failed = @ \cup {site}]
    IN  CASE h = "pass" ->
               /\ req' = [req EXCEPT ![w] = [r EXCEPT !.pc = "fetch"]]
               /\ UNCHANGED firstGif
          [] h = "none" -> Return(w, None, r)
          [] h = "log" -> Return(w, rec.gif_data, r)
          [] OTHER ->
               /\ req' = [req EXCEPT ![w] = [r EXCEPT !.pc = "done", !.status = 500]]
               /\ UNCHANGED firstGif

\* What the claims call oversize: a declared Content-Length above the maximum,
\* or more received bytes than the maximum.
Oversize(resp) == (resp.cl.kind = "int" /\ resp.cl.val > MaxBytes) \/ resp.len > MaxBytes

\* GET /img/<image_path>: proxy_image up to the call of fetch_and_convert_image.
Request(w) ==
    /\ req[w].pc \in {"idle", "done"}
    /\ budget > 0
    /\ serial => \A v \in Workers \ {w} : req[v].pc \in {"idle", "done"}
    /\ \E image_path \in pool, img \in ImgPrefs :
         LET early == ProxyImageEarly(img, image_path)
             key == CacheKey(ImageUrl(image_path))
         IN  req' = [req EXCEPT ![w] =
                 IF early # 0
                 THEN [Idle EXCEPT !.pc = "done", !.image_path = image_path,
                                   !.status = early,
                                   !.result = IF early = 200 THEN Placeholder ELSE <<>>]
                 ELSE [Idle EXCEPT !.pc = "exists", !.image_path = image_path,
                                   !.called = TRUE,
                                   !.prior = IF key \in DOMAIN firstGif
                                             THEN firstGif[key] ELSE None,
                                   !.storedPrior = IF UseCache /\ key \in DOMAIN stored
                                                   THEN stored[key] ELSE None]]
    /\ budget' = budget - 1
    /\ UNCHANGED <<debug, serial, pool, cache, firstGif, stored, ioFault>>

\* Line 738:  use_cache and os.path.exists(cache_path).
CacheHitInDebugOnly(key) == debug /\ Exists(key)

CacheHit(key) == UseCache /\ Exists(key)

CheckExists(w) ==
    /\ req[w].pc = "exists"
    /\ req' = [req EXCEPT ![w].pc = IF CacheHit(KeyOf(w)) THEN "read" ELSE "fetch"]
    /\ UNCHANGED <<debug, serial, pool, budget, cache, firstGif, stored, ioFault>>

\* Lines 739-744: the entry is opened and read, whatever it holds by now.
ReadCache(w) ==
    /\ req[w].pc = "read"
    /\ \/ Return(w, cache[KeyOf(w)], req[w])
       \/ Raise(w, "read", req[w])
    /\ UNCHANGED <<debug, serial, pool, budget, cache, stored, ioFault>>

\* Lines 746-771: the download, the two size checks, the decoder, the encoder.
Download(w) ==
    /\ req[w].pc = "fetch"
    /\ \E resp \in Responses :
         LET end == DownloadEnd(resp)
             rec == [req[w] EXCEPT !.fetched = TRUE,
                                   !.decoded = ReachesDecoder(resp),
                                   !.oversize = Oversize(resp)]
             got == [rec EXCEPT !.gif_data = Gif(UrlOf(w))]
         IN  CASE end = "ok" ->
                    IF UseCache
                    THEN /\ req' = [req EXCEPT ![w] = [got EXCEPT !.pc = "open"]]
                         /\ UNCHANGED firstGif
                    ELSE Return(w, got.gif_data, got)
               [] end \in {"declared", "received"} -> Return(w, None, rec)
               [] OTHER -> Raise(w, end, rec)
    /\ UNCHANGED <<debug, serial, pool, budget, cache, stored, ioFault>>

\* Line 775: open(cache_path, 'wb') creates the entry or truncates it.
OpenWrite(w) ==
    /\ req[w].pc = "open"
    /\ \/ /\ cache' = SetFile(cache, KeyOf(w), <<>>)
          /\ stored' = DelFile(stored, KeyOf(w))
          /\ req' = [req EXCEPT ![w].pc = "write", ![w].off = 0]
          /\ UNCHANGED firstGif
       \/ /\ Raise(w, "open", req[w])
          /\ UNCHANGED <<cache, stored>>
    /\ UNCHANGED <<debug, serial, pool, budget, ioFault>>

\* The bytes the next write of gif_data puts into the file: the header first,
\* then the rest.
Chunk(gif_data, off) ==
    IF off = 0 THEN SubSeq(gif_data, 1, 1) ELSE SubSeq(gif_data, off + 1, Len(gif_data))

\* Line 776 and the close of the file: gif_data reaches the file piece by piece.
WriteChunk(w) ==
    /\ req[w].pc = "write"
    /\ \/ LET data == Chunk(req[w].gif_data, req[w].off)
              file == PutAt(cache[KeyOf(w)], req[w].off, data)
              off == req[w].off + Len(data)
          IN  /\ cache' = SetFile(cache, KeyOf(w), file)
              /\ IF off = Len(req[w].gif_data)
                 THEN /\ Return(w, req[w].gif_data, [req[w] EXCEPT !.off = off])
                      /\ stored' = IF file = req[w].gif_data
                                   THEN SetFile(stored, KeyOf(w), file)
                                   ELSE stored
                 ELSE /\ req' = [req EXCEPT ![w].off = off]
                      /\ UNCHANGED <<firstGif, stored>>
          /\ UNCHANGED ioFault
       \/ /\ Raise(w, "write", req[w])
          /\ ioFault' = TRUE
          /\ UNCHANGED <<cache, stored>>
    /\ UNCHANGED <<debug, serial, pool, budget>>

\* The image paths requested of the running server.
ImagePaths == {<<"a">>, <<"en", "/", "a">>, <<"%">>}

InitWith(s, p, b) ==
    /\ debug \in BOOLEAN
    /\ serial = s
    /\ pool = p
    /\ budget = b
    /\ cache = NoFiles
    /\ firstGif = NoFiles
    /\ stored = NoFiles
    /\ ioFault = FALSE
    /\ req = [w \in Workers |-> Idle]
    /\ family = "none"
    /\ wpc = 4
    /\ img_mode = "1"
    /\ prefs_string = <<>>
    /\ doc = <<>>
    /\ orig = <<>>
    /\ infobox_html = <<>>
    /\ hero_image = <<>>
    /\ gallery_html = <<>>
    /\ lines = <<>>

\* Requests served concurrently, one worker each.
Init == InitWith(FALSE, ImagePaths, MaxCalls)

\* Requests served one at a time.
InitSeq == InitWith(TRUE, ImagePaths, MaxCalls)

\* One request, for any path of up to MaxPathLen atoms.
InitPaths == InitWith(TRUE, SeqsUpTo(PathAtoms, MaxPathLen), 1)

Next ==
    /\ \E w \in Workers :
        \/ Request(w)
        \/ CheckExists(w)
        \/ ReadCache(w)
        \/ Download(w)
        \/ OpenWrite(w)
        \/ WriteChunk(w)
    /\ UNCHANGED wikiVars

Spec == Init /\ [][Next]_vars

SpecSeq == InitSeq /\ [][Next]_vars

SpecPaths == InitPaths /\ [][Next]_vars

(***************************************************************************)
(* Text: whitespace, escaping and the marker patterns.                     *)
(***************************************************************************)
Whitespace == {" ", LF}

\* str.strip()
RECURSIVE LStrip(_)
LStrip(s) == IF s # <<>> /\ Head(s) \in Whitespace THEN LStrip(Tail(s)) ELSE s

RECURSIVE RStrip(_)
RStrip(s) ==
    IF s # <<>> /\ s[Len(s)] \in Whitespace THEN RStrip(SubSeq(s, 1, Len(s) - 1)) ELSE s

Strip(s) == RStrip(LStrip(s))

\* re.sub(r'\s+', ' ', s)
RECURSIVE CollapseWs(_)
CollapseWs(s) ==
    IF s = <<>> THEN <<>>
    ELSE IF Head(s) \in Whitespace THEN <<" ">> \o CollapseWs(LStrip(s))
    ELSE <<Head(s)>> \o CollapseWs(Tail(s))

\* markupsafe.escape, atom by atom.
EscapeAtom(a) ==
    CASE a = "&" -> "&amp;"
      [] a = "<" -> "&lt;"
      [] a = ">" -> "&gt;"
      [] a = "\"" -> "&#34;"
      [] a = "'" -> "&#39;"
      [] OTHER -> a

Escape(s) == [i \in 1..Len(s) |-> EscapeAtom(s[i])]

\* '[edit]' is the atoms "[ed" "it]"; '[citation needed]' is "[" "cn" "]";
\* '[<digits>]' is "[", one or more "1", "]".
EditMarker == <<"[ed", "it]">>

CitationNeeded == <<"[", "cn", "]">>

Digits == {"1"}

\* The length of the match of \[\d+\] at the start of s, or 0.
RECURSIVE DigitRun(_)
DigitRun(s) == IF s # <<>> /\ Head(s) \in Digits THEN 1 + DigitRun(Tail(s)) ELSE 0

DigitMarkerAt(s) ==
    IF s # <<>> /\ Head(s) = "["
    THEN LET k == DigitRun(Tail(s))
         IN  IF k >= 1 /\ Len(s) >= k + 2 /\ s[k + 2] = "]" THEN k + 2 ELSE 0
    ELSE 0

\* re.sub(literal, '', s): the matches are found left to right in s, none in
\* the text a removal leaves behind.
RECURSIVE RemoveAll(_, _)
RemoveAll(s, pat) ==
    IF s = <<>> THEN <<>>
    ELSE IF StartsWith(s, pat) THEN RemoveAll(SubSeq(s, Len(pat) + 1, Len(s)), pat)
    ELSE <<Head(s)>> \o RemoveAll(Tail(s), pat)

\* re.sub(r'\[\d+\]', '', s)
RECURSIVE RemoveDigitMarkers(_)
RemoveDigitMarkers(s) ==
    IF s = <<>> THEN <<>>
    ELSE IF DigitMarkerAt(s) > 0
         THEN RemoveDigitMarkers(SubSeq(s, DigitMarkerAt(s) + 1, Len(s)))
    ELSE <<Head(s)>> \o RemoveDigitMarkers(Tail(s))

\* Lines 894-896 and 916-918: the three substitutions, in this order.
StripMarkers(s) == RemoveAll(RemoveDigitMarkers(RemoveAll(s, EditMarker)), CitationNeeded)

\* clean_text
clean_text(text) == Strip(StripMarkers(CollapseWs(text)))

(***************************************************************************)
(* The document tree.  A node of the content root is a record; the nodes   *)
(* are kept in document order, each naming its parent (0: the content      *)
(* root).  inl holds the inline children of a paragraph-like node, each an *)
(* item with its own tag, classes, href, text (its get_text()) and, for a  *)
(* span-like item, its children.                                           *)
(***************************************************************************)
NoAttr == [has |-> FALSE, val |-> <<>>]

Attr(v) == [has |-> TRUE, val |-> v]

Item(tag, cls, href, text, inl) ==
    [tag |-> tag, cls |-> cls, href |-> href, text |-> text, inl |-> inl]

TextItem(text) == Item("#text", {}, <<>>, text, <<>>)

Elem(tag, cls) ==
    [id |-> 0, parent |-> 0, tag |-> tag, cls |-> cls, elid |-> "", inl |-> <<>>,
     src |-> NoAttr, width |-> NoAttr, height |-> NoAttr, alt |-> NoAttr,
     rows |-> <<>>]

\* element.children, for the node with the given id.
Children(d, pid) == SelectSeq(d, LAMBDA n : n.parent = pid)

\* get_text() of a sequence of inline items.
RECURSIVE InlineText(_)
InlineText(inl) ==
    IF inl = <<>> THEN <<>>
    ELSE (IF Head(inl).inl # <<>> THEN InlineText(Head(inl).inl) ELSE Head(inl).text)
             \o InlineText(Tail(inl))

\* get_text() of a node: its inline text, then that of its descendants.
RECURSIVE NodesText(_, _)
GetText(d, n) == InlineText(n.inl) \o NodesText(d, Children(d, n.id))

NodesText(d, ns) ==
    IF ns = <<>> THEN <<>> ELSE GetText(d, Head(ns)) \o NodesText(d, Tail(ns))

(***************************************************************************)
(* process_paragraph, process_list, process_element, process_content.      *)
(***************************************************************************)
IsWikiHref(href) == StartsWith(href, <<"/wiki/">>) /\ \A i \in 1..Len(href) : href[i] # ":"

Anchor(href, text, prefs) ==
    <<"<a href=\"">> \o Escape(href) \o (IF prefs # <<>> THEN <<"?">> \o prefs ELSE <<>>)
        \o <<"\">">> \o Escape(text) \o <<"</a>">>

\* Lines 863-868: what an  a  element with visible text adds to the result.
LinkPiece(href, text, prefs) ==
    IF IsWikiHref(href) THEN Anchor(href, text, prefs) ELSE <<>>

RECURSIVE process_paragraph(_, _)
\* Lines 855-891: what one child adds to the result.
Piece(child, prefs) ==
    CASE child.tag = "a" ->
           IF Strip(child.text) = <<>> THEN <<>>
           ELSE LinkPiece(child.href, child.text, prefs)
      [] child.tag \in {"b", "strong"} ->
           IF Strip(child.text) # <<>> THEN Escape(child.text) ELSE <<>>
      [] child.tag \in {"i", "em"} ->
           IF Strip(child.text) # <<>>
           THEN <<"<i>">> \o Escape(child.text) \o <<"</i>">> ELSE <<>>
      [] child.tag = "br" -> <<"<br>">>
      [] child.tag \in {"span", "small", "sup", "sub"} -> process_paragraph(child.inl, prefs)
      [] OTHER -> Escape(CollapseWs(InlineText(<<child>>)))

RECURSIVE Pieces(_, _)
Pieces(inl, prefs) ==
    IF inl = <<>> THEN <<>> ELSE Piece(Head(inl), prefs) \o Pieces(Tail(inl), prefs)

process_paragraph(inl, prefs) == Strip(StripMarkers(Pieces(inl, prefs)))

Open(tag) == <<"<", tag, ">">>

Close(tag) == <<"</", tag, ">">>

\* The blocks are kept as the list  lines;  process_content joins them with '\n'.
RECURSIVE ListItems(_, _)
ListItems(lis, prefs) ==
    IF lis = <<>> THEN <<>>
    ELSE LET html == process_paragraph(Head(lis).inl, prefs)
         IN  (IF Strip(html) # <<>> THEN <<LF>> \o Open("li") \o html \o Close("li") ELSE <<>>)
                 \o ListItems(Tail(lis), prefs)

process_list(d, element, ordered, prefs) ==
    LET items == ListItems(SelectSeq(Children(d, element.id), LAMBDA n : n.tag = "li"), prefs)
        tag == IF ordered THEN "ol" ELSE "ul"
    IN  IF items = <<>> THEN <<>> ELSE Open(tag) \o items \o <<LF>> \o Close(tag)

Headings == {"h2", "h3", "h4", "h5", "h6"}

\* Lines 809-812 and 841-844.
HeadingBlock(d, h) ==
    LET text == Strip(RemoveAll(clean_text(GetText(d, h)), EditMarker))
    IN  IF text # <<>> THEN <<Open(h.tag) \o Escape(text) \o Close(h.tag)>> ELSE <<>>

ParagraphBlock(n, prefs) ==
    LET html == process_paragraph(n.inl, prefs)
    IN  IF Strip(html) # <<>> THEN <<Open("p") \o html \o Close("p")>> ELSE <<>>

\* Lines 825-831.
RECURSIVE DlBlocks(_, _, _)
DlBlocks(d, items, prefs) ==
    IF items = <<>> THEN <<>>
    ELSE LET item == Head(items)
         IN  (CASE item.tag = "dt" ->
                     <<Open("p") \o Open("b") \o Escape(clean_text(GetText(d, item)))
                           \o Close("b") \o Close("p")>>
                [] item.tag = "dd" -> ParagraphBlock(item, prefs)
                [] OTHER -> <<>>)
                 \o DlBlocks(d, Tail(items), prefs)

RECURSIVE HeadingBlocks(_, _)
HeadingBlocks(d, hs) ==
    IF hs = <<>> THEN <<>> ELSE HeadingBlock(d, Head(hs)) \o HeadingBlocks(d, Tail(hs))

RECURSIVE process_element(_, _, _)
RECURSIVE ChildBlocks(_, _, _)
RECURSIVE ChildBlocksReversed(_, _, _)
\* Lines 803-849: the blocks one child of the element appends to lines.
ChildBlock(d, child, prefs) ==
    CASE child.tag = "p" -> ParagraphBlock(child, prefs)
      [] child.tag \in Headings -> HeadingBlock(d, child)
      [] child.tag = "ul" ->
           LET list_html == process_list(d, child, FALSE, prefs)
           IN  IF list_html # <<>> THEN <<list_html>> ELSE <<>>
      [] child.tag = "ol" ->
           LET list_html == process_list(d, child, TRUE, prefs)
           IN  IF list_html # <<>> THEN <<list_html>> ELSE <<>>
      [] child.tag = "dl" -> DlBlocks(d, Children(d, child.id), prefs)
      [] child.tag = "blockquote" ->
           LET text == clean_text(GetText(d, child))
           IN  IF Strip(text) # <<>>
               THEN <<Open("blockquote") \o Escape(text) \o Close("blockquote")>> ELSE <<>>
      [] child.tag = "div" ->
           IF "mw-heading" \in child.cls
           THEN HeadingBlocks(d, SelectSeq(Children(d, child.id), LAMBDA n : n.tag \in Headings))
           ELSE process_element(d, child.id, prefs)
      [] child.tag = "section" -> process_element(d, child.id, prefs)
      [] OTHER -> <<>>

ChildBlocksReversed(d, cs, prefs) ==
    IF cs = <<>> THEN <<>>
    ELSE ChildBlocksReversed(d, Tail(cs), prefs) \o ChildBlock(d, Head(cs), prefs)

ChildBlocks(d, cs, prefs) ==
    IF cs = <<>> THEN <<>>
    ELSE ChildBlock(d, Head(cs), prefs) \o ChildBlocks(d, Tail(cs), prefs)

process_element(d, pid, prefs) == ChildBlocks(d, Children(d, pid), prefs)

RECURSIVE Join(_, _)
Join(ls, sep) ==
    IF ls = <<>> THEN <<>>
    ELSE IF Len(ls) = 1 THEN ls[1]
    ELSE ls[1] \o sep \o Join(Tail(ls), sep)

process_content(d, prefs) == Join(process_element(d, 0, prefs), <<LF>>)

(***************************************************************************)
(* extract_image_path, extract_article_images, extract_infobox.            *)
(***************************************************************************)
MAX_IMAGES == 10

\* The declared width or height below which an image is skipped (326, 328).
MinImagePx == 50

\* src.split(sep)[-1]: the separators are found left to right, without overlap.
RECURSIVE AfterLastSplit(_, _)
AfterLastSplit(s, sep) ==
    IF ~Contains(s, sep) THEN s
    ELSE LET i == CHOOSE j \in 1..(Len(s) - Len(sep) + 1) :
                      /\ SubSeq(s, j, j + Len(sep) - 1) = sep
                      /\ \A k \in 1..(j - 1) : SubSeq(s, k, k + Len(sep) - 1) # sep
         IN  AfterLastSplit(SubSeq(s, i + Len(sep), Len(s)), sep)

NoPath == [ok |-> FALSE, prefix |-> <<>>, img_path |-> <<>>]

extract_image_path(src) ==
    IF ~Contains(src, <<"upload.wikimedia.org">>) THEN NoPath
    ELSE LET found ==
                 IF Contains(src, <<"/", "commons", "/">>)
                 THEN [ok |-> TRUE, prefix |-> <<>>,
                       img_path |-> AfterLastSplit(src, <<"/", "commons", "/">>)]
                 ELSE IF Contains(src, <<"/", "en", "/">>)
                 THEN [ok |-> TRUE, prefix |-> <<"en", "/">>,
                       img_path |-> AfterLastSplit(src, <<"/", "en", "/">>)]
                 ELSE NoPath
         IN  IF ~found.ok THEN NoPath
             ELSE IF ~SafeRe(found.img_path) \/ HasDotDot(found.img_path) THEN NoPath
             ELSE found

\* A width or height attribute: absent, '' , an integer, or not a number.
DimAbsent == [kind |-> "absent", val |-> 0]

Dim(v) == [kind |-> "int", val |-> v]

DimBad == [kind |-> "bad", val |-> 0]

Truthy(a) == a.kind \in {"int", "bad"}

\* Lines 325-331: whether the image is skipped for its declared size; int() of
\* a value that is no number raises ValueError, which ends the try block.
SizeSkip(width, height) ==
    IF Truthy(width) /\ width.kind = "bad" THEN FALSE
    ELSE IF Truthy(width) /\ width.val < MinImagePx THEN TRUE
    ELSE IF Truthy(height) /\ height.kind = "bad" THEN FALSE
    ELSE Truthy(height) /\ height.val < MinImagePx

ImgHtml(prefix, img_path, alt_text) ==
    <<"<img src=\"", "/img/">> \o prefix \o img_path \o <<"\" alt=\"">>
        \o Escape(alt_text) \o <<"\">">>

LimitOfAlwaysMax(mode, max_images) == max_images

\* Line 304.
LimitOf(mode, max_images) == IF mode = "1" THEN 1 ELSE max_images

\* Lines 308-335: the loop over the img elements that have a src.
RECURSIVE ImgLoop(_, _, _, _, _)
ImgLoop(imgs, images, seen_paths, limit, title_text) ==
    IF imgs = <<>> \/ Len(images) >= limit THEN images
    ELSE LET img_tag == Head(imgs)
             found == extract_image_path(img_tag.src.val)
             full_path == found.prefix \o found.img_path
         IN  IF ~found.ok THEN ImgLoop(Tail(imgs), images, seen_paths, limit, title_text)
             ELSE IF full_path \in seen_paths
             THEN ImgLoop(Tail(imgs), images, seen_paths, limit, title_text)
             ELSE IF SizeSkip(img_tag.width, img_tag.height)
             THEN ImgLoop(Tail(imgs), images, seen_paths \cup {full_path}, limit, title_text)
             ELSE ImgLoop(Tail(imgs),
                          Append(images,
                                 ImgHtml(found.prefix, found.img_path,
                                         IF img_tag.alt.has THEN img_tag.alt.val
                                         ELSE Escape(title_text))),
                          seen_paths \cup {full_path}, limit, title_text)

\* content.find_all('img', src=True)
ImgTags(d) == SelectSeq(d, LAMBDA n : n.tag = "img" /\ n.src.has)

\* The list  images  of extract_article_images.
ArticleImages(d, title_text, mode, max_images) ==
    IF mode = "0" THEN <<>>
    ELSE ImgLoop(ImgTags(d), <<>>, {}, LimitOf(mode, max_images), title_text)

\* Lines 337-348: hero_html and gallery_html.
extract_article_images(d, title_text, mode, max_images) ==
    LET images == ArticleImages(d, title_text, mode, max_images)
    IN  IF images = <<>> THEN [hero |-> <<>>, gallery |-> <<>>]
        ELSE [hero |-> <<"<center>">> \o images[1] \o <<"</center><br>">>,
              gallery |-> IF Len(images) > 1
                          THEN <<"<h2>More Images</h2><br><br>">> \o Join(Tail(images), <<" ">>)
                          ELSE <<>>]

\* class_=re.compile(r'infobox')
InfoboxClasses == {"infobox", "infobox-label", "infobox-data"}

\* Lines 358-373: a row with a label cell and a data cell, both with text.
RECURSIVE InfoboxItems(_)
InfoboxItems(rows) ==
    IF rows = <<>> THEN <<>>
    ELSE LET row == Head(rows)
             label == clean_text(row.th.val)
             value == clean_text(row.td.val)
         IN  (IF row.th.has /\ row.td.has /\ label # <<>> /\ value # <<>>
              THEN <<"<li><b>">> \o Escape(label) \o <<":</b> ">> \o Escape(value)
                       \o <<"</li>", LF>>
              ELSE <<>>) \o InfoboxItems(Tail(rows))

extract_infobox(d) ==
    LET boxes == SelectSeq(d, LAMBDA n : n.tag \in {"table", "div"}
                                         /\ n.cls \cap InfoboxClasses # {})
    IN  IF boxes = <<>> THEN <<>>
        ELSE LET items == InfoboxItems(boxes[1].rows)
             IN  IF items = <<>> THEN <<>>
                 ELSE <<"<ul>", LF>> \o items \o <<"</ul>", LF, "<hr>", LF>>

(***************************************************************************)
(* The selector filter of wiki (lines 606-623).                            *)
(***************************************************************************)
TagSel(name) == [kind |-> "tag", name |-> name]

ClassSel(name) == [kind |-> "class", name |-> name]

IdSel(name) == [kind |-> "id", name |-> name]

unwanted_selectors ==
    <<TagSel("script"), TagSel("style"), TagSel("img"), TagSel("figure"), TagSel("table"),
      ClassSel("infobox"), ClassSel("navbox"), ClassSel("sidebar"),
      ClassSel("mw-editsection"), ClassSel("reference"), ClassSel("reflist"),
      ClassSel("thumb"), ClassSel("mw-empty-elt"), ClassSel("noprint"),
      ClassSel("mw-jump-link"), ClassSel("toc"), IdSel("coordinates"),
      ClassSel("hatnote"), ClassSel("shortdescription"), ClassSel("mbox-small"),
      ClassSel("ambox"), ClassSel("cmbox"), ClassSel("fmbox"), ClassSel("imbox"),
      ClassSel("ombox"), ClassSel("tmbox"), ClassSel("portal"),
      ClassSel("sistersitebox"), ClassSel("noexcerpt"), ClassSel("mw-references-wrap"),
      ClassSel("refbegin"), ClassSel("refend"), ClassSel("navbox-styles"),
      ClassSel("catlinks"), ClassSel("mw-authority-control")>>

\* Whether an element with this tag, these classes and this id matches.
Matches(tag, cls, elid, sel) ==
    CASE sel.kind = "tag" -> tag = sel.name
      [] sel.kind = "class" -> sel.name \in cls
      [] OTHER -> elid = sel.name

\* decompose() of the matching inline items.
RECURSIVE PruneInline(_, _)
PruneInline(inl, sel) ==
    IF inl = <<>> THEN <<>>
    ELSE LET it == Head(inl)
         IN  (IF Matches(it.tag, it.cls, "", sel) THEN <<>>
              ELSE <<[it EXCEPT !.inl = PruneInline(it.inl, sel)]>>)
                 \o PruneInline(Tail(inl), sel)

\* The ids of the nodes that match or lie below a node that matches.
RECURSIVE Doomed(_, _, _)
Doomed(d, sel, i) ==
    IF i = 0 THEN {}
    ELSE LET before == Doomed(d, sel, i - 1)
             n == d[i]
         IN  IF Matches(n.tag, n.cls, n.elid, sel) \/ n.parent \in before
             THEN before \cup {n.id} ELSE before

\* for tag in content.select(selector): tag.decompose()
ApplySelector(d, sel) ==
    LET gone == Doomed(d, sel, Len(d))
        kept == SelectSeq(d, LAMBDA n : n.id \notin gone)
    IN  [i \in 1..Len(kept) |-> [kept[i] EXCEPT !.inl = PruneInline(kept[i].inl, sel)]]

\* The loop ends with the first rule that removes something.
RECURSIVE ApplySelectorsUntilHit(_, _)
ApplySelectorsUntilHit(d, sels) ==
    IF sels = <<>> \/ d = <<>> THEN d
    ELSE IF ApplySelector(d, Head(sels)) # d THEN ApplySelector(d, Head(sels))
    ELSE ApplySelectorsUntilHit(d, Tail(sels))

RECURSIVE ApplySelectors(_, _)
ApplySelectors(d, sels) ==
    IF sels = <<>> \/ d = <<>> THEN d
    ELSE ApplySelectors(ApplySelector(d, Head(sels)), Tail(sels))

\* Lines 622-623:  sup  elements of class reference.
RECURSIVE PruneRefSups(_)
PruneRefSups(inl) ==
    IF inl = <<>> THEN <<>>
    ELSE LET it == Head(inl)
         IN  (IF it.tag = "sup" /\ "reference" \in it.cls THEN <<>>
              ELSE <<[it EXCEPT !.inl = PruneRefSups(it.inl)]>>)
                 \o PruneRefSups(Tail(inl))

RemoveRefSups(d) == [i \in 1..Len(d) |-> [d[i] EXCEPT !.inl = PruneRefSups(d[i].inl)]]

(***************************************************************************)
(* wiki, from the content root on (lines 603-629).                         *)
(***************************************************************************)
\* The title of the article, the fallback alt text.
title_text == <<"T">>

WikiStepsFilterFirst == <<"filter", "extract", "render">>

\* The order of the statements of wiki: 603-604, 606-623, 625-629.
WikiSteps == <<"extract", "filter", "render">>

\* wpc: 0 while the article is parsed, then the number of the next step.
Pos == IF wpc = 0 THEN 1 ELSE wpc

AtStep(name) == Pos \in 1..Len(WikiSteps) /\ WikiSteps[Pos] = name

Done(name) == \E i \in 1..(wpc - 1) : WikiSteps[i] = name

\* Lines 603-604.
Extract ==
    /\ AtStep("extract")
    /\ infobox_html' = extract_infobox(doc)
    /\ LET r == extract_article_images(doc, title_text, img_mode, MAX_IMAGES)
       IN  hero_image' = r.hero /\ gallery_html' = r.gallery
    /\ wpc' = Pos + 1
    /\ UNCHANGED <<family, img_mode, prefs_string, doc, orig, lines>>

\* Lines 606-623.
Filter ==
    /\ AtStep("filter")
    /\ doc' = RemoveRefSups(ApplySelectors(doc, unwanted_selectors))
    /\ wpc' = Pos + 1
    /\ UNCHANGED <<family, img_mode, prefs_string, orig, infobox_html, hero_image,
                   gallery_html, lines>>

\* Line 628.
Render ==
    /\ AtStep("render")
    /\ lines' = process_element(doc, 0, prefs_string)
    /\ wpc' = Pos + 1
    /\ UNCHANGED <<family, img_mode, prefs_string, doc, orig, infobox_html, hero_image,
                   gallery_html>>

(***************************************************************************)
(* The articles: the tree of the content root as BeautifulSoup builds it   *)
(* (line 593), element by element in document order.                       *)
(***************************************************************************)
\* A kind of element; fill: the element holds its own number as text when it
\* is placed, so that every text of a document is unique.
Kind(el, fill) == [el |-> el, fill |-> fill]

Place(k, id, parent) ==
    [k.el EXCEPT !.id = id, !.parent = parent,
                 !.inl = IF k.fill THEN <<TextItem(<<ToString(id)>>)>> ELSE k.el.inl]

RECURSIVE AncestorsOrSelf(_, _)
AncestorsOrSelf(d, id) == IF id = 0 THEN {0} ELSE {id} \cup AncestorsOrSelf(d, d[id].parent)

\* The elements the next element in document order can be a child of.
RightPath(d) == AncestorsOrSelf(d, Len(d))

\* The tags an element (0: the content root) takes as children in an article.
AllowedIn(d, pid) ==
    LET tag == IF pid = 0 THEN "div" ELSE d[pid].tag
        cls == IF pid = 0 THEN {} ELSE d[pid].cls
    IN  CASE tag = "div" /\ "mw-heading" \in cls -> {"h2", "p"}
          [] tag = "div" /\ "thumb" \in cls -> {"img"}
          [] tag \in {"div", "section"} ->
               {"p", "h2", "ul", "dl", "blockquote", "div", "section", "table", "figure", "img"}
          [] tag \in {"ul", "ol"} -> {"li"}
          [] tag = "dl" -> {"dt", "dd"}
          [] tag = "table" -> {"p", "img"}
          [] tag \in {"figure", "p"} -> {"img"}
          [] OTHER -> {}

BlockKinds ==
    {Kind(Elem(t, {}), TRUE) : t \in {"p", "h2", "li", "dt", "dd", "blockquote"}}
        \cup {Kind(Elem(t, {}), FALSE) : t \in {"p", "ul", "dl", "div", "section", "table"}}
        \cup {Kind(Elem("div", {"mw-heading"}), FALSE)}

Upload == <<"https:", "/", "/", "upload.wikimedia.org", "/", "wikipedia", "/">>

CommonsSrc(name) == Upload \o <<"commons", "/">> \o name

EnSrc(name) == Upload \o <<"en", "/">> \o name

EvilSrc(name) == <<"https:", "/", "/", "evil.example", "/", "commons", "/">> \o name

Img(src, width, height) ==
    [Elem("img", {}) EXCEPT !.src = Attr(src), !.width = width, !.height = height]

InfoboxTable ==
    [Elem("table", {"infobox"}) EXCEPT
        !.rows = <<[th |-> Attr(<<"L">>), td |-> Attr(<<"V", "[", "1", "]">>)],
                   [th |-> Attr(<<"L">>), td |-> NoAttr]>>]

ImageKinds ==
    {Kind(Img(CommonsSrc(<<"a">>), DimAbsent, DimAbsent), FALSE),
     Kind(Img(CommonsSrc(<<"a">>), Dim(20), DimAbsent), FALSE),
     Kind(Img(EnSrc(<<"a">>), Dim(100), Dim(100)), FALSE),
     Kind(Img(EvilSrc(<<"a">>), DimAbsent, DimAbsent), FALSE),
     Kind(Elem("img", {}), FALSE),
     Kind(Elem("figure", {}), FALSE),
     Kind(Elem("div", {"thumb"}), FALSE),
     Kind(Elem("div", {}), FALSE),
     Kind(InfoboxTable, FALSE),
     Kind(Elem("p", {}), TRUE)}

\* A reference mark, as Wikipedia writes it into a paragraph.
RefSup == Item("sup", {"reference"}, <<>>, <<"[", "1", "]">>, <<>>)

\* Elements that one removal rule matches, that two rules match, and that hold
\* inline elements a rule matches.
FilterKinds ==
    {Kind(Img(CommonsSrc(<<"a">>), DimAbsent, DimAbsent), FALSE),
     Kind(Elem("table", {"infobox"}), FALSE),
     Kind(Elem("div", {"thumb"}), FALSE),
     Kind(Elem("div", {"navbox", "noprint"}), FALSE),
     Kind(Elem("div", {}), FALSE),
     Kind([Elem("p", {}) EXCEPT !.elid = "coordinates"], TRUE),
     Kind([Elem("p", {}) EXCEPT
              !.inl = <<TextItem(<<"x">>), RefSup,
                        Item("span", {"noprint"}, <<>>, <<>>, <<TextItem(<<"y">>), RefSup>>)>>],
          FALSE)}

KindsOf(f) ==
    CASE f = "blocks" -> BlockKinds
      [] f = "filter" -> FilterKinds
      [] OTHER -> ImageKinds

MaxNodesOf(f) ==
    CASE f = "blocks" -> MaxNodes
      [] f = "filter" -> MaxFilterNodes
      [] OTHER -> MaxImgNodes

\* The parser appends the next element of the article.
Parse ==
    /\ wpc = 0
    /\ Len(doc) < MaxNodesOf(family)
    /\ \E pid \in RightPath(doc) :
         \E k \in {x \in KindsOf(family) : x.el.tag \in AllowedIn(doc, pid)} :
            doc' = Append(doc, Place(k, Len(doc) + 1, pid))
    /\ orig' = doc'
    /\ UNCHANGED <<family, wpc, img_mode, prefs_string, infobox_html, hero_image,
                   gallery_html, lines>>

\* The file name of i letters.
Name(i) == [j \in 1..i |-> "a"]

\* An article of k images under the content root, the i-th with a file name of
\* its own or with that of the first.
GalleryDoc(k, own) ==
    [i \in 1..k |->
        Place(Kind(Img(CommonsSrc(Name(IF own[i] THEN i ELSE 1)), DimAbsent, DimAbsent),
                   FALSE), i, 0)]

HrefAtoms == {"/wiki/", "T", ":", "https:"}

LinkTexts == {<<>>, <<" ">>, <<"x">>, <<" ", "x">>, <<"&">>}

Para(inl) == <<[Elem("p", {}) EXCEPT !.id = 1, !.inl = inl]>>

Link(href, text) == Item("a", {}, href, text, <<>>)

\* A paragraph with one link, directly or inside a span.
LinkDoc(href, text, inSpan) ==
    IF inSpan THEN Para(<<Item("span", {}, <<>>, <<>>, <<Link(href, text)>>)>>)
    ELSE Para(<<TextItem(<<"See", " ">>), Link(href, text), TextItem(<<".">>)>>)

\* The example of the specification:
\* <p>See <a href="/wiki/Computer">Computer</a> and <a href="https://example.com">here</a>.[1]</p>
ExampleDoc ==
    Para(<<TextItem(<<"See", " ">>),
           Link(<<"/wiki/", "Computer">>, <<"Computer">>),
           TextItem(<<" ", "and", " ">>),
           Link(<<"https:", "//example.com">>, <<"here">>),
           TextItem(<<".", "[", "1", "]">>)>>)

MarkerAtoms == {"[ed", "it]", "[", "]", "1", "cn"}

\* A paragraph, a heading or a block quote with one text.
TextDoc(tag, text) == <<[Elem(tag, {}) EXCEPT !.id = 1, !.inl = <<TextItem(text)>>]>>

\* A paragraph whose text is split over a text, a bold element, a reference
\* mark and a text.
SplitDoc(a, b, c) ==
    Para(<<TextItem(<<a>>), Item("b", {}, <<>>, <<b>>, <<>>),
           Item("sup", {"reference"}, <<>>, <<"[", "1", "]">>, <<>>), TextItem(<<c>>)>>)

InitWiki(f, pc, modes, prefss) ==
    /\ debug = FALSE
    /\ serial = TRUE
    /\ pool = {}
    /\ budget = 0
    /\ cache = NoFiles
    /\ firstGif = NoFiles
    /\ stored = NoFiles
    /\ ioFault = FALSE
    /\ req = [w \in Workers |-> Idle]
    /\ family = f
    /\ wpc = pc
    /\ img_mode \in modes
    /\ prefs_string \in prefss
    /\ orig = doc
    /\ infobox_html = <<>>
    /\ hero_image = <<>>
    /\ gallery_html = <<>>
    /\ lines = <<>>

\* Articles of blocks, parsed element by element.
InitBlocks == doc = <<>> /\ InitWiki("blocks", 0, {"1"}, {<<>>})

\* Articles with images: parsed element by element, or a row of images.
InitImages ==
    \/ doc = <<>> /\ InitWiki("images", 0, ImgPrefs, {<<>>})
    \/ /\ \E k \in (MAX_IMAGES - 1)..MaxImgs : \E own \in [1..k -> BOOLEAN] :
            doc = GalleryDoc(k, own)
       /\ InitWiki("gallery", 1, ImgPrefs, {<<>>})

\* Articles of one paragraph, heading or block quote.
InitInline ==
    /\ \/ \E href \in SeqsUpTo(HrefAtoms, MaxHrefLen), text \in LinkTexts, inSpan \in BOOLEAN :
            doc = LinkDoc(href, text, inSpan)
       \/ doc = ExampleDoc
       \/ \E tag \in {"p", "h2", "blockquote"}, text \in SeqsUpTo(MarkerAtoms, MaxTextLen) :
            doc = TextDoc(tag, text)
       \/ \E a \in MarkerAtoms, b \in MarkerAtoms, c \in MarkerAtoms : doc = SplitDoc(a, b, c)
    /\ InitWiki("inline", 1, {"1"}, {<<>>, <<"img=a">>})

NextWiki == (Extract \/ Filter \/ Render) /\ UNCHANGED cacheVars

NextParse == (Parse \/ Extract \/ Filter \/ Render) /\ UNCHANGED cacheVars

SpecBlocks == InitBlocks /\ [][NextParse]_vars

SpecImages == InitImages /\ [][NextParse]_vars

SpecInline == InitInline /\ [][NextWiki]_vars

\* The hosts, the directories below /wikipedia/ and the path segments of the
\* src of an image element.
SrcHosts == {"upload.wikimedia.org", "evil.example"}

SrcRepos == {"commons", "en", "other"}

SegAtoms == {"a", "en", "commons", "upload.wikimedia.org"}

\* segs joined with '/'.
PathOf(segs) == Join([i \in 1..Len(segs) |-> <<segs[i]>>], <<"/">>)

\* https://<host>/wikipedia/<repo>/<segs joined with '/'>
SrcOf(host, repo, segs) ==
    <<"https:", "/", "/", host, "/", "wikipedia", "/", repo, "/">> \o PathOf(segs)

\* What a width or height attribute may hold.
DimValues == {DimAbsent, DimBad, Dim(0), Dim(MinImagePx - 1), Dim(MinImagePx), Dim(2 * MinImagePx)}

\* An article of one image element under the content root.
SrcDoc(src, width, height) == <<Place(Kind(Img(src, width, height), FALSE), 1, 0)>>

\* Articles of one image: any source without a declared size, or a source of
\* the upload host with any declared size.
InitSrc ==
    \/ /\ \E host \in SrcHosts, repo \in SrcRepos, segs \in SeqsUpTo(SegAtoms, MaxSegs) :
            segs # <<>> /\ doc = SrcDoc(SrcOf(host, repo, segs), DimAbsent, DimAbsent)
       /\ InitWiki("src", 1, {"1", "a"}, {<<>>})
    \/ /\ \E width \in DimValues, height \in DimValues :
            doc = SrcDoc(CommonsSrc(<<"a">>), width, height)
       /\ InitWiki("size", 1, {"1", "a"}, {<<>>})

SpecSrc == InitSrc /\ [][NextWiki]_vars

\* Articles of elements the removal rules match, parsed element by element.
InitFilter == doc = <<>> /\ InitWiki("filter", 0, {"1"}, {<<>>})

SpecFilter == InitFilter /\ [][NextParse]_vars

(***************************************************************************)
(* Claims about the image cache and the image proxy.                       *)
(***************************************************************************)
Called(w) == req[w].pc = "done" /\ req[w].called

C2_NoCorruption ==
    \A w \in Workers :
        Called(w) /\ req[w].result # None /\ ~ioFault =>
            req[w].result = Gif(UrlOf(w))

\* C3: a response whose declared Content-Length or whose received byte count
\* exceeds 5 MiB never reaches Image.open, and the call returns None.
C3_SizeCeiling ==
    \A w \in Workers :
        req[w].oversize =>
            /\ ~req[w].decoded
            /\ req[w].pc = "done" /\ req[w].result = None /\ req[w].status = 404

C3_Witness ==
    \E w \in Workers : req[w].oversize /\ req[w].fetched /\ req[w].result = None

\* C4: no failure inside fetch_and_convert_image leaves it as an exception: a
\* call in which something failed returns None or the complete GIF, and
\* proxy_image answers None with 404, never with a server error.
C4_FailuresDegrade ==
    \A w \in Workers :
        Called(w) =>
            /\ req[w].status \in {200, 404}
            /\ req[w].failed # {} => req[w].result \in {None, Gif(UrlOf(w))}
            /\ req[w].result = None => req[w].status = 404

C4_Witness ==
    \E w \in Workers :
        /\ Called(w) /\ "decode" \in req[w].failed
        /\ req[w].result = None /\ req[w].status = 404

\* C5: proxy_image never calls fetch_and_convert_image for a path that contains
\* '..' or a character outside [a-zA-Z0-9/_.-].
C5_PathSafety ==
    \A w \in Workers :
        req[w].called => AllSafe(req[w].image_path) /\ ~HasDotDot(req[w].image_path)

(***************************************************************************)
(* Claims about the image extractor and the renderer.                      *)
(***************************************************************************)
CountImgs(html) == Cardinality({i \in 1..Len(html) : html[i] = "<img src=\""})

Emitted == CountImgs(hero_image \o gallery_html)

\* C6: whatever the article holds, extraction yields no image reference in
\* mode '0', at most one in mode '1' and at most MAX_IMAGES in mode 'a', and
\* the gallery is empty unless the mode is 'a'.
C6_ImageModeBound ==
    Done("extract") =>
        /\ img_mode = "0" => Emitted = 0
        /\ img_mode = "1" => Emitted <= 1
        /\ img_mode = "a" => Emitted <= MAX_IMAGES
        /\ img_mode # "a" => gallery_html = <<>>

C6_Witness ==
    /\ Done("extract") /\ img_mode = "a" /\ Emitted = MAX_IMAGES
    /\ Cardinality({orig[i].src.val : i \in 1..Len(orig)}) > MAX_IMAGES

\* The one link of a paragraph that holds one link, directly or in a span.
OneLink(d) ==
    /\ Len(d) = 1 /\ d[1].tag = "p"
    /\ \/ Len(d[1].inl) = 3 /\ d[1].inl[2].tag = "a"
       \/ Len(d[1].inl) = 1 /\ d[1].inl[1].tag = "span"

TheLink(d) == IF Len(d[1].inl) = 3 THEN d[1].inl[2] ELSE d[1].inl[1].inl[1]

ExampleHtml ==
    <<"<", "p", ">", "See", " ", "<a href=\"", "/wiki/", "Computer", "\">", "Computer",
      "</a>", " ", "and", " ", "here", ".", "</", "p", ">">>

\* C7: a link is rendered as an anchor exactly if its href is /wiki/<title>
\* without a colon and its text is not blank; any other link with text is
\* rendered as its bare text (so the example renders as the specification says).
C7_LinkSafety ==
    Done("render") /\ family = "inline" =>
        LET out == Join(lines, <<LF>>)
        IN  /\ OneLink(orig) =>
                 LET a == TheLink(orig)
                     vis == Strip(CollapseWs(a.text))
                     anchor == Contains(out, <<"<a href=\"">>)
                 IN  /\ anchor <=> (IsWikiHref(a.href) /\ vis # <<>>)
                     /\ ~anchor /\ vis # <<>> => Contains(out, Escape(vis))
            /\ orig = ExampleDoc /\ prefs_string = <<>> => out = ExampleHtml

NoMarker(s) ==
    /\ ~Contains(s, EditMarker)
    /\ ~Contains(s, CitationNeeded)
    /\ \A j \in 1..Len(s) : DigitMarkerAt(SubSeq(s, j, Len(s))) = 0

\* C8: no rendered block contains '[edit]', '[<digits>]' or '[citation needed]'.
C8_CitationStripping == Done("render") => \A i \in 1..Len(lines) : NoMarker(lines[i])

IsIdAtom(a) == \E i \in 1..Len(orig) : ToString(i) = a

IdOf(a) == CHOOSE i \in 1..Len(orig) : ToString(i) = a

\* The elements whose text a piece of output holds, in the order of the output.
RECURSIVE IdsIn(_)
IdsIn(s) ==
    IF s = <<>> THEN <<>>
    ELSE (IF IsIdAtom(Head(s)) THEN <<IdOf(Head(s))>> ELSE <<>>) \o IdsIn(Tail(s))

\* The element a text belongs to as a block: the list of a list item.
Owner(id) == IF orig[id].tag = "li" THEN orig[id].parent ELSE id

\* Whether every ancestor of the element is a plain div or a section.
RECURSIVE PassThrough(_)
PassThrough(pid) ==
    \/ pid = 0
    \/ /\ orig[pid].tag \in {"div", "section"} /\ orig[pid].cls = {}
       /\ PassThrough(orig[pid].parent)

\* C9: the blocks come in the document order of their elements, those inside
\* plain div and section containers at the place of the container; no block is
\* out of order, repeated or merged with another.
C9_OrderPreserved ==
    Done("render") /\ family = "blocks" =>
        LET ids == IdsIn(Join(lines, <<LF>>))
        IN  /\ \A i \in 1..(Len(ids) - 1) : ids[i] < ids[i + 1]
            /\ \A i \in 1..Len(lines) :
                 \A x \in 1..Len(IdsIn(lines[i])), y \in 1..Len(IdsIn(lines[i])) :
                     Owner(IdsIn(lines[i])[x]) = Owner(IdsIn(lines[i])[y])
            /\ \A i \in 1..Len(lines), j \in 1..Len(lines) :
                 i # j /\ IdsIn(lines[i]) # <<>> /\ IdsIn(lines[j]) # <<>> =>
                     Owner(IdsIn(lines[i])[1]) # Owner(IdsIn(lines[j])[1])
            /\ \A n \in 1..Len(orig) :
                 /\ orig[n].tag \in {"p", "h2", "blockquote"} /\ orig[n].inl # <<>>
                 /\ PassThrough(orig[n].parent)
                 => \E i \in 1..Len(ids) : ids[i] = n

C9_Witness ==
    /\ Done("render") /\ family = "blocks" /\ Len(lines) = 2
    /\ Len(orig) = 3 /\ orig[1].tag = "div" /\ orig[2].parent = 1 /\ orig[3].parent = 0
    /\ IdsIn(Join(lines, <<LF>>)) = <<2, 3>>

\* Whether the image element is accepted for its source and size and no earlier
\* image element has its path.
GoodImg(d, i) ==
    /\ d[i].tag = "img" /\ d[i].src.has
    /\ extract_image_path(d[i].src.val).ok
    /\ ~SizeSkip(d[i].width, d[i].height)
    /\ \A j \in 1..(i - 1) :
         d[j].tag = "img" /\ d[j].src.has =>
             extract_image_path(d[j].src.val) # extract_image_path(d[i].src.val)

\* C10: the images and the infobox are extracted from the content root as
\* parsed, before the selector filter removes anything, and extraction leaves
\* the tree as it was; an image whose element the filter removes is still there.
C10_ExtractBeforeFilter ==
    /\ Done("extract") =>
         /\ hero_image = extract_article_images(orig, title_text, img_mode, MAX_IMAGES).hero
         /\ gallery_html = extract_article_images(orig, title_text, img_mode, MAX_IMAGES).gallery
         /\ infobox_html = extract_infobox(orig)
         /\ img_mode # "0" /\ (\E i \in 1..Len(orig) : GoodImg(orig, i)) => hero_image # <<>>
    /\ Done("extract") /\ ~Done("filter") => doc = orig
    /\ wpc = 4 => Done("extract") /\ Done("filter") /\ ImgTags(doc) = <<>>

C10_Witness ==
    /\ Done("filter") /\ hero_image # <<>> /\ infobox_html # <<>> /\ ImgTags(doc) = <<>>
    /\ \E i \in 1..Len(orig) :
         /\ GoodImg(orig, i) /\ orig[i].parent # 0
         /\ orig[orig[i].parent].tag = "figure"
         /\ \A j \in 1..Len(doc) : doc[j].id # orig[i].parent

\* The host of an image source.
HostOf(src) == src[4]

\* C11: an image source whose host is not upload.wikimedia.org yields no image
\* reference, also when that text occurs elsewhere in the URL.
C11_UploadHostRooted ==
    Done("extract") /\ family = "src" /\ HostOf(orig[1].src.val) # "upload.wikimedia.org"
        => hero_image = <<>> /\ gallery_html = <<>>

\* Whether the attribute declares a size below the minimum.
Below(a) == a.kind = "int" /\ a.val < MinImagePx

\* C12: an image whose declared width or declared height is below 50 yields no
\* image reference, whatever the other attribute holds.
C12_SizeThreshold ==
    Done("extract") /\ family = "size" /\ (Below(orig[1].width) \/ Below(orig[1].height))
        => hero_image = <<>> /\ gallery_html = <<>>

\* The rules that remove something from the tree.
Relevant(d) == SelectSeq(unwanted_selectors, LAMBDA sel : ApplySelector(d, sel) # d)

\* The rules sels in the order p, a permutation of their positions.
Permuted(sels, p) == [i \in 1..Len(sels) |-> sels[p[i]]]

Reversed(sels) == [i \in 1..Len(sels) |-> sels[Len(sels) + 1 - i]]

\* Lines 618-623 with the rules in another order.
FilterWith(d, sels) == RemoveRefSups(ApplySelectors(d, sels))

\* Whether a rule matches the element or one of its ancestors.
RECURSIVE Unwanted(_, _)
Unwanted(d, id) ==
    /\ id # 0
    /\ \/ \E i \in 1..Len(unwanted_selectors) :
              Matches(d[id].tag, d[id].cls, d[id].elid, unwanted_selectors[i])
       \/ Unwanted(d, d[id].parent)

\* C13: the pruned tree does not depend on the order of the removal rules: the
\* rules that remove something give the same tree in each of their orders, as
\* does the whole list reversed; the tree holds the elements that no rule
\* matches, below no element a rule matches; the filter applied to the pruned
\* tree changes nothing.
C13_FilterOrderIndependent ==
    Done("filter") /\ ~Done("render") /\ family = "filter" =>
        LET rel == Relevant(orig)
        IN  /\ \A p \in Permutations(1..Len(rel)) : FilterWith(orig, Permuted(rel, p)) = doc
            /\ FilterWith(orig, Reversed(unwanted_selectors)) = doc
            /\ {doc[i].id : i \in 1..Len(doc)}
                 = {id \in 1..Len(orig) : ~Unwanted(orig, id)}
            /\ FilterWith(doc, unwanted_selectors) = doc

C13_Witness ==
    /\ Done("filter") /\ family = "filter" /\ Len(Relevant(orig)) >= 3
    /\ doc # <<>> /\ doc # orig
    /\ \E i \in 1..Len(orig) :
         /\ orig[i].tag = "img" /\ orig[i].parent # 0
         /\ "thumb" \in orig[orig[i].parent].cls

\* The local paths of the image references of a piece of output, in its order.
RECURSIVE LocalPaths(_)
RECURSIVE UpToAlt(_)
UpToAlt(html) ==
    IF html = <<>> \/ Head(html) = "\" alt=\"" THEN <<>>
    ELSE <<Head(html)>> \o UpToAlt(Tail(html))

LocalPaths(html) ==
    IF html = <<>> THEN <<>>
    ELSE IF Head(html) = "/img/" THEN <<UpToAlt(Tail(html))>> \o LocalPaths(Tail(html))
    ELSE LocalPaths(Tail(html))

\* The resolved path of an image source.
ResolvedPath(src) == extract_image_path(src).prefix \o extract_image_path(src).img_path

\* Whether the image element passes the validation of its source and the size
\* heuristic.
Passes(n) ==
    /\ n.tag = "img" /\ n.src.has /\ extract_image_path(n.src.val).ok
    /\ ~SizeSkip(n.width, n.height)

\* The resolved paths of the images that pass, each at its first occurrence.
RECURSIVE FirstPassing(_, _)
FirstPassing(d, seen) ==
    IF d = <<>> THEN <<>>
    ELSE IF Passes(Head(d)) /\ ResolvedPath(Head(d).src.val) \notin seen
    THEN <<ResolvedPath(Head(d).src.val)>>
             \o FirstPassing(Tail(d), seen \cup {ResolvedPath(Head(d).src.val)})
    ELSE FirstPassing(Tail(d), seen)

\* C14: no two emitted references share a resolved path, and up to the limit
\* of the mode every resolved path with an image that passes the validation of
\* the source and the size heuristic is emitted, in the order of the first such
\* images.
C14_DedupeFirstOccurrence ==
    Done("extract") /\ img_mode # "0" =>
        LET out == LocalPaths(hero_image \o gallery_html)
            all == FirstPassing(orig, {})
            limit == IF img_mode = "1" THEN 1 ELSE MAX_IMAGES
        IN  /\ \A i \in 1..Len(out), j \in 1..Len(out) : i # j => out[i] # out[j]
            /\ out = SubSeq(all, 1, IF Len(all) < limit THEN Len(all) ELSE limit)

\* No call of fetch_and_convert_image is under way.
Quiet == \A w \in Workers : req[w].pc \in {"idle", "done"}

\* Every entry holds the GIF of the URL whose digest names it.
EntriesExact ==
    \A key \in DOMAIN cache :
        \E image_path \in pool :
            /\ key = CacheKey(ImageUrl(image_path))
            /\ cache[key] = Gif(ImageUrl(image_path))

\* C15: over the calls of fetch_and_convert_image made one after another, a
\* call that ends in 'not available' has transcoded nothing and the cache
\* changes only in a call that has transcoded its image; between the calls
\* every entry holds exactly the GIF of the URL whose digest names it; no step
\* deletes an entry.
C15_CacheEntryFrame ==
    /\ [](\A w \in Workers : Called(w) /\ req[w].result = None => req[w].gif_data = None)
    /\ [][cache' # cache =>
            \E w \in Workers : /\ req[w].pc \in {"open", "write"}
                               /\ req[w].gif_data = Gif(UrlOf(w))]_vars
    /\ [](Quiet => EntriesExact)
    /\ [][DOMAIN cache \subseteq DOMAIN cache']_vars

\* The segments of an image source after https://<host>/wikipedia/.
ResourceOf(src) == SubSeq(src, 8, Len(src))

\* C16: for an image source of the upload host that extraction accepts, the
\* local path it emits passes the validation of proxy_image, and the upstream
\* URL proxy_image builds of it names the directory and the path of the source.
C16_RoundTrip ==
    /\ Done("extract") /\ family = "src" /\ hero_image # <<>>
    /\ HostOf(orig[1].src.val) = "upload.wikimedia.org"
    => LET local == LocalPaths(hero_image)[1]
       IN  /\ ProxyImageEarly(img_mode, local) = 0
           /\ Tail(ImageUrl(local)) = ResourceOf(orig[1].src.val)

====
